---------------------------- MODULE Spec2Model ----------------------------
(***************************************************************************)
(* A model of the ray caster of src/main.cpp: Sphere::intersects,          *)
(* Bulb::power, allBut and the recursive function cast.                    *)
(*                                                                         *)
(* Numbers.  The program computes in IEEE floats.  Here a real number x is *)
(* the integer x * SCALE (fixed point), and every product, quotient and    *)
(* square root is rounded toward zero, so that, as with floats, negating   *)
(* an operand negates the result exactly.  A vector (QVector3D, Color) is  *)
(* a triple of such numbers.                                               *)
(*                                                                         *)
(* Recursion.  cast calls itself; the call stack is the variable stack, a  *)
(* sequence of frames holding the parameters and locals of one invocation. *)
(***************************************************************************)
EXTENDS Integers, Sequences, FiniteSets, TLC

\* Resolution of the fixed-point numbers: 1.0 is SCALE.
SCALE == 100
\* Longest surface list and longest light list handed to the top-level cast.
MaxShapes == 3
MaxLights == 2

Fx(n) == n * SCALE

---------------------------------------------------------------------------
(* float arithmetic *)

Abs(a) == IF a < 0 THEN -a ELSE a
Max(a, b) == IF a < b THEN b ELSE a
TruncDiv(p, q) == IF (p < 0) = (q < 0) THEN Abs(p) \div Abs(q) ELSE -(Abs(p) \div Abs(q))
FMul(a, b) == TruncDiv(a * b, SCALE)
FDiv(a, b) == TruncDiv(a * SCALE, b)

RECURSIVE ISqrtIn(_, _, _)
ISqrtIn(n, lo, hi) ==
    IF lo >= hi THEN lo
    ELSE LET mid == (lo + hi + 1) \div 2
         IN  IF mid * mid <= n THEN ISqrtIn(n, mid, hi) ELSE ISqrtIn(n, lo, mid - 1)
\* floor of the square root of the integer n >= 0
ISqrt(n) == ISqrtIn(n, 0, IF n < 46340 THEN n ELSE 46340)
\* std::sqrt on fixed-point numbers
Sqrt(x) == ISqrt(x * SCALE)

\* M_PI and M_PI_2
Pi == (314159 * SCALE) \div 100000
PiHalf == (157080 * SCALE) \div 100000

\* cos on [0, pi/2] by its series, and on (pi/2, pi] by cos(t) = -cos(pi - t)
CosSeries(t) ==
    LET t2 == FMul(t, t)
        t4 == FMul(t2, t2)
        t6 == FMul(t4, t2)
    IN  SCALE - TruncDiv(t2, 2) + TruncDiv(t4, 24) - TruncDiv(t6, 720)
Cos(t) == IF t <= PiHalf THEN CosSeries(t) ELSE -CosSeries(Pi - t)

RECURSIVE AcosIn(_, _, _)
AcosIn(x, lo, hi) ==
    IF lo >= hi THEN lo
    ELSE LET mid == (lo + hi) \div 2
         IN  IF Cos(mid) <= x THEN AcosIn(x, lo, mid) ELSE AcosIn(x, mid + 1, hi)
\* std::acos: the least angle of [0, pi] whose cosine is at most x
Acos(x) == AcosIn(x, 0, Pi)

---------------------------------------------------------------------------
(* QVector3D *)

Zero3 == <<0, 0, 0>>
VAdd(a, b) == <<a[1] + b[1], a[2] + b[2], a[3] + b[3]>>
VSub(a, b) == <<a[1] - b[1], a[2] - b[2], a[3] - b[3]>>
VNeg(a) == <<-a[1], -a[2], -a[3]>>
\* vector * float
VScale(a, k) == <<FMul(a[1], k), FMul(a[2], k), FMul(a[3], k)>>
\* componentwise product of two vectors (Color * Color)
VMul(a, b) == <<FMul(a[1], b[1]), FMul(a[2], b[2]), FMul(a[3], b[3])>>
dotProduct(a, b) == FMul(a[1], b[1]) + FMul(a[2], b[2]) + FMul(a[3], b[3])
lengthSquared(a) == dotProduct(a, a)
\* the length, computed (as Qt does) in higher precision than the components
Length(a) == ISqrt(a[1] * a[1] + a[2] * a[2] + a[3] * a[3])
\* QVector3D::normalized: the null vector is returned for the null vector
normalized(a) ==
    LET len == Length(a)
    IN  IF len = 0 THEN Zero3
        ELSE <<FDiv(a[1], len), FDiv(a[2], len), FDiv(a[3], len)>>

---------------------------------------------------------------------------
(* The scene objects cast is run on. *)

\* Sphere(center, radius, color, mirror)
Spheres == <<
    [center |-> <<Fx(0), Fx(0), Fx(0)>>, radius |-> Fx(2),
     color |-> <<SCALE, SCALE \div 2, SCALE \div 2>>, mirror |-> 0],
    [center |-> <<Fx(0), Fx(0), Fx(0)>>, radius |-> Fx(2),
     color |-> <<SCALE \div 2, SCALE, SCALE \div 2>>, mirror |-> (9 * SCALE) \div 10],
    [center |-> <<Fx(5), Fx(0), Fx(0)>>, radius |-> Fx(1),
     color |-> <<SCALE, SCALE, SCALE>>, mirror |-> SCALE \div 2],
    [center |-> <<Fx(-5), Fx(0), Fx(0)>>, radius |-> Fx(1),
     color |-> <<SCALE \div 2, SCALE \div 2, SCALE>>, mirror |-> 0],
    [center |-> <<Fx(0), Fx(1), Fx(0)>>, radius |-> Fx(2),
     color |-> <<SCALE \div 2, SCALE \div 2, SCALE \div 5>>, mirror |-> (4 * SCALE) \div 10] >>
SphereIds == 1 .. Len(Spheres)

\* Bulb(center, color)
Bulbs == <<
    [center |-> <<Fx(-10), Fx(0), Fx(0)>>, color |-> <<(7 * SCALE) \div 10, (7 * SCALE) \div 10, (7 * SCALE) \div 10>>],
    [center |-> <<Fx(-10), Fx(10), Fx(0)>>, color |-> <<SCALE, SCALE \div 2, 0>>],
    [center |-> <<Fx(10), Fx(0), Fx(0)>>, color |-> <<SCALE, SCALE, SCALE>>] >>
BulbIds == 1 .. Len(Bulbs)

---------------------------------------------------------------------------
(* Sphere::intersects *)

\* the rejection of line 79 left out
EarlyRejectNever(c, b) == FALSE

\* line 79: the origin is outside the sphere and the sphere is behind the ray
EarlyReject(c, b) == c > 0 /\ b > 0

\* line 87 without the clamp to 0
HitDistanceUnclamped(b, discr) == -b - Sqrt(discr)

\* line 87
HitDistance(b, discr) == Max(0, -b - Sqrt(discr))

NoHit == [hit |-> FALSE, intersection |-> Zero3, normal |-> Zero3, reflection |-> Zero3]

intersects(s, origin, direction) ==
    LET m == VSub(origin, Spheres[s].center)
        b == dotProduct(direction, m)
        c == dotProduct(m, m) - FMul(Spheres[s].radius, Spheres[s].radius)
        discr == FMul(b, b) - c
    IN  IF EarlyReject(c, b) THEN NoHit
        ELSE IF discr < 0 THEN NoHit
        ELSE LET t == HitDistance(b, discr)
                 intersection == VAdd(origin, VScale(direction, t))
                 normal == normalized(VSub(intersection, Spheres[s].center))
                 reflection == VSub(direction,
                                    VScale(VScale(normal, Fx(2)), dotProduct(direction, normal)))
             IN  [hit |-> TRUE, intersection |-> intersection,
                  normal |-> normal, reflection |-> reflection]

(* Bulb::power *)
power(l, origin, normalDirection) ==
    LET v1 == normalized(VSub(origin, Bulbs[l].center))
        v2 == normalDirection
        rad == Acos(dotProduct(v1, v2))
    IN  IF Abs(rad) > PiHalf THEN 0
        ELSE SCALE - FDiv(Abs(rad), PiHalf)

---------------------------------------------------------------------------
(* allBut: the vector without the element at the 0-based position index *)

\* removeAt(index) mistaken for the removal of the first element
allButFirst(vector, index) == SubSeq(vector, 2, Len(vector))

allBut(vector, index) ==
    [i \in 1 .. (Len(vector) - 1) |-> IF i <= index THEN vector[i] ELSE vector[i + 1]]

---------------------------------------------------------------------------
(* cast *)

VARIABLES
    stack,              \* the frames of the cast invocations in progress, outermost first
    result,             \* << >>, or <<c>> once the top-level cast has returned c
    returned,           \* << >>, or <<r>>: the invocation that returned last and its value
    colorOnMiss,        \* parameters of the top-level call, passed down unchanged
    colorOnFullShade,
    topShapes,          \* the surface list and light list of the top-level call
    topLights,
    probe               \* a single call of Sphere::intersects and of its mirror image

vars == <<stack, result, returned, colorOnMiss, colorOnFullShade, topShapes, topLights, probe>>

\* std::numeric_limits<float>::max()
FloatMax == 2000000000

\* the frame of a call cast(shapes, lights, origin, direction, ...), at line 117
Frame(shapes, lights, origin, direction) ==
    [shapes |-> shapes, lights |-> lights, origin |-> origin, direction |-> direction,
     pc |-> "scan",
     index |-> 0,
     shortestDistanceSquared |-> FloatMax,
     shapeIndex |-> -1,
     intersectionOrigin |-> Zero3,
     normalDirection |-> Zero3,
     reflectionDirection |-> Zero3,
     otherShapes |-> << >>,
     colorSelf |-> Zero3,
     colorMask |-> Zero3,
     lightIndex |-> 0,
     \* history of the invocation, read by the properties only
     tested |-> << >>,          \* the surfaces the hit search called intersects on
     calls |-> 0,               \* recursive cast calls made
     shadowTested |-> {},       \* the surfaces the shadow queries called intersects on
     shadowSets |-> {},         \* the lists the shadow queries ran over
     powerCalls |-> 0,          \* light->power evaluations
     added |-> << >>]           \* the terms added to colorMask, in order

Top == stack[Len(stack)]
Running == Len(stack) > 0

\* line 136 with > for >=: the last of several equally near surfaces wins
NotNearerStrict(distanceSquared, shortestDistanceSquared) ==
    distanceSquared > shortestDistanceSquared

\* line 136: the candidate is no nearer than the nearest so far
NotNearer(distanceSquared, shortestDistanceSquared) ==
    distanceSquared >= shortestDistanceSquared

\* line 150 with >= for >
IsMirrorOrMatte(s) == Spheres[s].mirror >= 0

\* line 150
IsMirror(s) == Spheres[s].mirror > 0

\* line 145 returning the other colour parameter
MissColorShade == colorOnFullShade

\* line 145
MissColor == colorOnMiss

\* lines 151-157 passing shapes where otherShapes is meant
MirrorCallSameShapes(f) ==
    Frame(f.shapes, f.lights, f.intersectionOrigin, f.reflectionDirection)

\* lines 151-157: the frame of the recursive call made by the invocation f
MirrorCall(f) ==
    Frame(f.otherShapes, f.lights, f.intersectionOrigin, f.reflectionDirection)

\* line 158
Blend(s, colorSelf, colorMirrored) ==
    VAdd(VScale(colorSelf, SCALE - Spheres[s].mirror), VScale(colorMirrored, Spheres[s].mirror))

\* line 166: the direction of the shadow query for the light l
ShadowDirection(f, l) == normalized(VSub(f.intersectionOrigin, Bulbs[l].center))

\* lines 163-173: the surfaces tested before the loop ends, and whether one was hit
RECURSIVE ShadowLoop(_, _, _, _)
ShadowLoop(otherShapes, i, o, d) ==
    IF i > Len(otherShapes) THEN [isBlocked |-> FALSE, tested |-> {}]
    ELSE IF intersects(otherShapes[i], o, d).hit
         THEN [isBlocked |-> TRUE, tested |-> {otherShapes[i]}]
         ELSE LET rest == ShadowLoop(otherShapes, i + 1, o, d)
              IN  [isBlocked |-> rest.isBlocked, tested |-> {otherShapes[i]} \cup rest.tested]

\* lines 158-160: the frame f of a caller when the cast it called returns color
Resume(f, color) ==
    [f EXCEPT !.colorSelf = Blend(f.shapes[f.shapeIndex + 1], f.colorSelf, color),
              !.colorMask = colorOnFullShade,
              !.pc = "lights"]

\* return color from the innermost invocation
Return(color) ==
    /\ returned' = << [frame |-> Top, color |-> color, depth |-> Len(stack)] >>
    /\ IF Len(stack) = 1
       THEN /\ stack' = << >>
            /\ result' = <<color>>
       ELSE /\ stack' = SubSeq(stack, 1, Len(stack) - 2)
                            \o << Resume(stack[Len(stack) - 1], color) >>
            /\ UNCHANGED result

SetTop(f) == stack' = [stack EXCEPT ![Len(stack)] = f]

\* lines 123-143: the frame f after one iteration of the hit search
Scan(f) ==
    LET s == f.shapes[f.index + 1]
        h == intersects(s, f.origin, f.direction)
        distanceSquared == lengthSquared(VSub(h.intersection, f.origin))
        g == [f EXCEPT !.index = f.index + 1, !.tested = Append(f.tested, s)]
    IN  IF ~h.hit \/ NotNearer(distanceSquared, f.shortestDistanceSquared)
        THEN g
        ELSE [g EXCEPT !.shortestDistanceSquared = distanceSquared,
                       !.intersectionOrigin = h.intersection,
                       !.normalDirection = h.normal,
                       !.reflectionDirection = h.reflection,
                       !.shapeIndex = f.index]

ScanStep ==
    /\ Running /\ Top.pc = "scan" /\ Top.index < Len(Top.shapes)
    /\ SetTop(Scan(Top))
    /\ UNCHANGED <<result, returned, colorOnMiss, colorOnFullShade, topShapes, topLights, probe>>

\* lines 144-145
Miss ==
    /\ Running /\ Top.pc = "scan" /\ Top.index = Len(Top.shapes)
    /\ Top.shapeIndex < 0
    /\ Return(MissColor)
    /\ UNCHANGED <<colorOnMiss, colorOnFullShade, topShapes, topLights, probe>>

\* lines 147-149
Chosen(f) ==
    [f EXCEPT !.otherShapes = allBut(f.shapes, f.shapeIndex),
              !.colorSelf = Spheres[f.shapes[f.shapeIndex + 1]].color]

\* lines 147-157: a mirror was hit, cast calls itself
HitMirror ==
    /\ Running /\ Top.pc = "scan" /\ Top.index = Len(Top.shapes)
    /\ Top.shapeIndex >= 0
    /\ IsMirror(Top.shapes[Top.shapeIndex + 1])
    /\ LET f == [Chosen(Top) EXCEPT !.pc = "call", !.calls = @ + 1]
       IN  stack' = [stack EXCEPT ![Len(stack)] = f] \o << MirrorCall(f) >>
    /\ UNCHANGED <<result, returned, colorOnMiss, colorOnFullShade, topShapes, topLights, probe>>

\* lines 147-150 and 160: the surface hit is no mirror
HitMatte ==
    /\ Running /\ Top.pc = "scan" /\ Top.index = Len(Top.shapes)
    /\ Top.shapeIndex >= 0
    /\ ~IsMirror(Top.shapes[Top.shapeIndex + 1])
    /\ SetTop([Chosen(Top) EXCEPT !.colorMask = colorOnFullShade, !.pc = "lights"])
    /\ UNCHANGED <<result, returned, colorOnMiss, colorOnFullShade, topShapes, topLights, probe>>

\* lines 161-182: the frame f after one iteration of the loop over the lights
Light(f) ==
    LET l == f.lights[f.lightIndex + 1]
        q == ShadowLoop(f.otherShapes, 1, f.intersectionOrigin, ShadowDirection(f, l))
        p == power(l, f.intersectionOrigin, f.normalDirection)
        g == [f EXCEPT !.lightIndex = f.lightIndex + 1,
                       !.shadowTested = @ \cup q.tested,
                       !.shadowSets = @ \cup {f.otherShapes}]
    IN  IF q.isBlocked THEN g
        ELSE IF p <= 0 THEN [g EXCEPT !.powerCalls = @ + 1]
        ELSE [g EXCEPT !.powerCalls = @ + 1,
                       !.colorMask = VAdd(f.colorMask, VScale(Bulbs[l].color, p)),
                       !.added = Append(@, l)]

LightStep ==
    /\ Running /\ Top.pc = "lights" /\ Top.lightIndex < Len(Top.lights)
    /\ SetTop(Light(Top))
    /\ UNCHANGED <<result, returned, colorOnMiss, colorOnFullShade, topShapes, topLights, probe>>

\* line 183
Finish ==
    /\ Running /\ Top.pc = "lights" /\ Top.lightIndex = Len(Top.lights)
    /\ Return(VMul(Top.colorSelf, Top.colorMask))
    /\ UNCHANGED <<colorOnMiss, colorOnFullShade, topShapes, topLights, probe>>

---------------------------------------------------------------------------
(* The calls of cast that are explored. *)

\* the sequences of at most n elements of S
SeqsUpTo(S, n) == UNION {[1 .. k -> S] : k \in 0 .. n}

\* those in which no element occurs twice
DistinctSeqs(S, n) ==
    {q \in SeqsUpTo(S, n) : \A i, j \in DOMAIN q : i # j => q[i] # q[j]}

\* (origin, direction) of the rays cast
Rays == {
    << <<Fx(10), Fx(0), Fx(0)>>, <<-SCALE, 0, 0>> >>,
    << <<Fx(3), Fx(0), Fx(0)>>, <<-SCALE, 0, 0>> >>,
    << <<Fx(0), Fx(0), Fx(0)>>, <<SCALE, 0, 0>> >> }

NoProbe == [sphere |-> 1, origin |-> Zero3, direction |-> Zero3, pc |-> "idle",
            fwd |-> NoHit, bwd |-> NoHit]

Init ==
    /\ stack = << >>
    /\ result = << >>
    /\ returned = << >>
    /\ topShapes = << >> /\ topLights = << >>
    /\ colorOnMiss = Zero3 /\ colorOnFullShade = Zero3
    /\ probe = NoProbe

\* line 238: the top-level call cast(shapes, lights, origin, cameraDirection,
\* colorOnMiss, colorOnFullShade)
Call ==
    /\ stack = << >> /\ result = << >> /\ returned = << >>
    /\ topShapes' \in DistinctSeqs(SphereIds, MaxShapes)
    /\ topLights' \in DistinctSeqs(BulbIds, MaxLights)
    /\ colorOnMiss' = <<0, 0, SCALE>>
    /\ colorOnFullShade' = <<SCALE \div 10, SCALE \div 10, SCALE \div 10>>
    /\ \E ray \in Rays : stack' = << Frame(topShapes', topLights', ray[1], ray[2]) >>
    /\ UNCHANGED <<result, returned, probe>>

Next ==
    \/ Call
    \/ ScanStep
    \/ Miss
    \/ HitMirror
    \/ HitMatte
    \/ LightStep
    \/ Finish

Spec == Init /\ [][Next]_vars

---------------------------------------------------------------------------
(* Sphere::intersects on its own: one call, and the call with the opposite direction. *)

ProbeOrigins == {
    <<Fx(0), Fx(0), Fx(0)>>, <<Fx(5), Fx(0), Fx(0)>>, <<Fx(-5), Fx(0), Fx(0)>>,
    <<Fx(0), Fx(1), Fx(0)>>, <<Fx(2), Fx(0), Fx(0)>>, <<Fx(3), Fx(0), Fx(0)>>,
    <<Fx(4), Fx(0), Fx(0)>>, <<Fx(10), Fx(0), Fx(0)>>, <<Fx(10), Fx(0), Fx(5)>>,
    <<Fx(1), Fx(1), Fx(1)>> }

ProbeDirections(origin) ==
    { <<-SCALE, 0, 0>>, <<SCALE, 0, 0>>, <<0, SCALE, 0>>, <<0, 0, -SCALE>>,
      <<Fx(2), 0, 0>>, <<SCALE, SCALE, 0>>, <<-SCALE \div 2, SCALE \div 4, 0>> }
    \cup {normalized(VSub(origin, Bulbs[l].center)) : l \in BulbIds}

ProbeInit ==
    /\ topShapes = << >> /\ topLights = << >>
    /\ colorOnMiss = <<0, 0, SCALE>>
    /\ colorOnFullShade = <<SCALE \div 10, SCALE \div 10, SCALE \div 10>>
    /\ stack = << >> /\ result = << >> /\ returned = << >>
    /\ \E s \in SphereIds, o \in ProbeOrigins :
          \E d \in ProbeDirections(o) :
             probe = [sphere |-> s, origin |-> o, direction |-> d, pc |-> "ready",
                      fwd |-> NoHit, bwd |-> NoHit]

ProbeCall ==
    /\ probe.pc = "ready"
    /\ probe' = [probe EXCEPT !.fwd = intersects(probe.sphere, probe.origin, probe.direction),
                              !.pc = "called"]
    /\ UNCHANGED <<stack, result, returned, colorOnMiss, colorOnFullShade, topShapes, topLights>>

ProbeOpposite ==
    /\ probe.pc = "called"
    /\ probe' = [probe EXCEPT !.bwd = intersects(probe.sphere, probe.origin,
                                                 VNeg(probe.direction)),
                              !.pc = "done"]
    /\ UNCHANGED <<stack, result, returned, colorOnMiss, colorOnFullShade, topShapes, topLights>>

ProbeNext == ProbeCall \/ ProbeOpposite

ProbeSpec == ProbeInit /\ [][ProbeNext]_vars

---------------------------------------------------------------------------
(* Vocabulary of the properties. *)

Range(q) == {q[i] : i \in DOMAIN q}

\* every invocation in progress, and the one that returned last
Invocations == Range(stack) \cup {returned[i].frame : i \in DOMAIN returned}

\* the invocation has finished its hit search
Scanned(f) == f.index = Len(f.shapes)
\* the invocation has selected a hit surface (it is past line 149)
HasHit(f) == f.pc \in {"call", "lights"}
Selected(f) == f.shapes[f.shapeIndex + 1]

\* the surface at the 0-based position i of f's list reports a hit for f's ray
Hits(f, i) == intersects(f.shapes[i + 1], f.origin, f.direction).hit
Dist2(f, i) ==
    lengthSquared(VSub(intersects(f.shapes[i + 1], f.origin, f.direction).intersection,
                       f.origin))
Positions(f) == 0 .. (Len(f.shapes) - 1)
HitPositions(f) == {i \in Positions(f) : Hits(f, i)}

\* q without every occurrence of the elements of X, order kept
Without(q, X) == SelectSeq(q, LAMBDA x : x \notin X)

---------------------------------------------------------------------------
(* C5: once the hit search of an invocation is over, it has called          *)
(* intersects on every surface of its list, and the selected position is    *)
(* that of a surface reporting a hit at the smallest squared distance from  *)
(* the ray origin, the lowest such position when several tie; no position   *)
(* is selected only when no surface reports a hit.                          *)
C5_NearestHit ==
    \A f \in Invocations :
        Scanned(f) =>
            LET hitPositions == HitPositions(f)
            IN  /\ f.tested = f.shapes
                /\ (f.shapeIndex = -1) = (hitPositions = {})
                /\ f.shapeIndex # -1 =>
                     /\ f.shapeIndex \in hitPositions
                     /\ LET nearest == Dist2(f, f.shapeIndex)
                        IN  \A j \in hitPositions \ {f.shapeIndex} :
                               LET dj == Dist2(f, j)
                               IN  nearest < dj \/ (nearest = dj /\ f.shapeIndex < j)

\* two surfaces tie at the smallest distance and a farther hit is in the list too
C5_Witness ==
    \E f \in Invocations :
        /\ Scanned(f) /\ f.shapeIndex >= 0
        /\ \E j, k \in HitPositions(f) :
              /\ j > f.shapeIndex /\ Dist2(f, j) = Dist2(f, f.shapeIndex)
              /\ Dist2(f, k) > Dist2(f, f.shapeIndex)

---------------------------------------------------------------------------
(* C6: an invocation none of whose surfaces reports a hit for its ray (an   *)
(* empty list included) returns exactly colorOnMiss, having made no shadow  *)
(* query, no power evaluation and no recursive call.                        *)
C6_MissResult ==
    /\ \A i \in DOMAIN returned :
          LET f == returned[i].frame
          IN  HitPositions(f) = {} =>
                 /\ returned[i].color = colorOnMiss
                 /\ f.calls = 0 /\ f.powerCalls = 0
                 /\ f.shadowTested = {} /\ f.shadowSets = {}
    /\ \A f \in Range(stack) :
          Scanned(f) /\ HitPositions(f) = {} =>
             f.calls = 0 /\ f.powerCalls = 0 /\ f.shadowTested = {} /\ f.shadowSets = {}

\* the top-level call, with surfaces and lights, missed every surface
C6_Witness ==
    /\ result # << >>
    /\ \E i \in DOMAIN returned :
          /\ returned[i].depth = 1
          /\ returned[i].frame.shapes # << >> /\ returned[i].frame.lights # << >>
          /\ HitPositions(returned[i].frame) = {}
          /\ result[1] = colorOnMiss /\ colorOnMiss # colorOnFullShade

---------------------------------------------------------------------------
(* C7: in an invocation that selected a hit surface, the list used for the  *)
(* mirror recursion and for every shadow query is the input list without    *)
(* the selected surface, the others in their order; the selected surface is *)
(* never tested by a shadow query.                                          *)
C7_SelfExclusion ==
    /\ \A f \in Invocations :
          HasHit(f) =>
             /\ f.otherShapes = Without(f.shapes, {Selected(f)})
             /\ Len(f.otherShapes) = Len(f.shapes) - 1
             /\ f.shadowSets \subseteq {f.otherShapes}
             /\ Selected(f) \notin f.shadowTested
             /\ f.shadowTested \subseteq Range(f.otherShapes)
    /\ \A i \in 1 .. (Len(stack) - 1) :
          stack[i + 1].shapes = Without(stack[i].shapes, {Selected(stack[i])})

\* an invocation that hit a surface which is not the first of its list, recursed
\* and ran shadow queries over at least two other surfaces has returned
C7_Witness ==
    \E i \in DOMAIN returned :
        LET f == returned[i].frame
        IN  /\ HasHit(f) /\ f.shapeIndex >= 1 /\ f.calls = 1
            /\ Cardinality(f.shadowTested) >= 2

---------------------------------------------------------------------------
(* C9: an invocation calls cast exactly when it selected a hit surface      *)
(* whose mirror fraction is > 0, and then once, with its own light list,    *)
(* the other surfaces, the hit point as origin and the reflected direction; *)
(* a hit surface of mirror fraction 0 leaves the surface colour as base     *)
(* colour.                                                                  *)
C9_RecursionIffMirror ==
    /\ \A f \in Invocations :
          /\ f.calls <= 1
          /\ (f.calls = 1) = (HasHit(f) /\ Spheres[Selected(f)].mirror > 0)
          /\ (f.pc = "lights" /\ Spheres[Selected(f)].mirror = 0)
                => f.colorSelf = Spheres[Selected(f)].color
    /\ \A i \in 1 .. (Len(stack) - 1) :
          /\ stack[i].pc = "call" /\ stack[i].calls = 1
          /\ stack[i + 1].lights = stack[i].lights
          /\ stack[i + 1].shapes = stack[i].otherShapes
          /\ stack[i + 1].origin = stack[i].intersectionOrigin
          /\ stack[i + 1].direction = stack[i].reflectionDirection
    /\ Running => Top.pc # "call"

\* a callee that hit a surface of mirror fraction 0 returned to a caller that
\* hit a mirror
C9_Witness ==
    /\ Running /\ Top.calls = 1 /\ Top.pc = "lights"
    /\ \E i \in DOMAIN returned :
          /\ returned[i].depth = Len(stack) + 1
          /\ HasHit(returned[i].frame) /\ returned[i].frame.calls = 0
          /\ returned[i].frame.origin = Top.intersectionOrigin

---------------------------------------------------------------------------
(* C10: along a reflection chain the selected surfaces are pairwise         *)
(* distinct, the candidates of the invocation at depth k are the top-level  *)
(* surfaces without those selected at shallower depths, and its shadow      *)
(* queries test none of the surfaces selected at depths 0..k.               *)
SelectedBelow(k) == {Selected(stack[j]) : j \in 1 .. (k - 1)}

C10_CumulativeExclusion ==
    \A k \in DOMAIN stack :
        /\ stack[k].shapes = Without(topShapes, SelectedBelow(k))
        /\ HasHit(stack[k]) =>
             /\ Selected(stack[k]) \notin SelectedBelow(k)
             /\ stack[k].otherShapes
                   = Without(topShapes, SelectedBelow(k) \cup {Selected(stack[k])})
             /\ stack[k].shadowSets \subseteq {stack[k].otherShapes}
             /\ stack[k].shadowTested
                   \subseteq Range(topShapes) \ (SelectedBelow(k) \cup {Selected(stack[k])})

\* after two bounces the ray points back at the surface that reflected it first,
\* and shadow queries have run
C10_Witness ==
    /\ Len(stack) = 3 /\ Top.pc = "lights" /\ Top.lightIndex > 0
    /\ intersects(Selected(stack[1]), Top.origin, Top.direction).hit
    /\ \E l \in Range(Top.lights) :
          intersects(Selected(stack[1]), Top.intersectionOrigin, ShadowDirection(Top, l)).hit

---------------------------------------------------------------------------
(* Termination.  WorkLeft bounds the steps an invocation can still take:    *)
(* the rest of its hit search, the step that ends it, and, if a surface may *)
(* be hit, a whole invocation on one surface fewer, the loop over the       *)
(* lights and the return.                                                   *)
RECURSIVE CallWork(_, _)
\* the steps of a whole invocation on n surfaces and nl lights, at most
CallWork(n, nl) == n + 1 + (IF n = 0 THEN 0 ELSE CallWork(n - 1, nl) + nl + 1)

WorkLeft(f) ==
    CASE f.pc = "scan" ->
            (Len(f.shapes) - f.index) + 1
            + (IF Len(f.shapes) = 0 THEN 0
               ELSE CallWork(Len(f.shapes) - 1, Len(f.lights)) + Len(f.lights) + 1)
      [] f.pc = "call" -> Len(f.lights) + 1
      [] f.pc = "lights" -> (Len(f.lights) - f.lightIndex) + 1

RECURSIVE SumWork(_)
SumWork(k) == IF k = 0 THEN 0 ELSE WorkLeft(stack[k]) + SumWork(k - 1)
Rank == SumWork(Len(stack))

\* the innermost invocation stands at a statement that can be executed
CanStep ==
    \/ Top.pc = "scan" /\ Top.index <= Len(Top.shapes)
    \/ Top.pc = "lights" /\ Top.lightIndex <= Len(Top.lights)

(* C1: every recursive call receives the caller's surfaces without the one  *)
(* selected, one fewer, so the invocation at depth k of a top-level call    *)
(* with N surfaces holds N - k of them and the depth never exceeds N; and   *)
(* the call returns: while it runs, a step is always possible and every     *)
(* step lowers Rank, a natural number, so only finitely many steps are      *)
(* taken before the stack is empty.  No depth counter is involved.          *)
C1_Terminates ==
    /\ [](\A k \in DOMAIN stack : Len(stack[k].shapes) = Len(topShapes) - (k - 1))
    /\ [](\A k \in 1 .. (Len(stack) - 1) :
             /\ Len(stack[k + 1].shapes) = Len(stack[k].shapes) - 1
             /\ Range(stack[k + 1].shapes) = Range(stack[k].shapes) \ {Selected(stack[k])})
    /\ [](Len(stack) <= Len(topShapes) + 1)
    /\ [](Running => CanStep /\ Rank > 0)
    /\ [](~Running => Rank = 0)
    /\ [][Running => Rank' < Rank]_vars
    /\ [][Running /\ ~Running' => result' # << >>]_vars

\* the deepest chain: every surface of the top-level call has reflected the ray,
\* and the call made on no surface has returned
C1_Witness ==
    /\ Len(topShapes) >= 2
    /\ Len(stack) = Len(topShapes)
    /\ \E i \in DOMAIN returned :
          returned[i].depth = Len(topShapes) + 1 /\ returned[i].frame.shapes = << >>

---------------------------------------------------------------------------
(* Sphere::intersects alone, on the calls of ProbeSpec. *)

\* dot(m, m) - radius^2 for the probed sphere and origin: > 0 outside the sphere
ProbeC ==
    LET m == VSub(probe.origin, Spheres[probe.sphere].center)
    IN  dotProduct(m, m) - FMul(Spheres[probe.sphere].radius, Spheres[probe.sphere].radius)

(* C2 as stated: for every sphere, origin and direction d, intersects       *)
(* reports a hit for d if and only if it reports one for -d.                *)
C2_DirectionSymmetric ==
    probe.pc = "done" => (probe.fwd.hit = probe.bwd.hit)

(* C2 as amended: from an origin inside or on the sphere both d and -d      *)
(* report a hit; from an origin outside it at most one of them does.        *)
C2_SymmetricInsideOnly ==
    probe.pc = "done" =>
        /\ ProbeC <= 0 => probe.fwd.hit /\ probe.bwd.hit
        /\ ProbeC > 0 => ~(probe.fwd.hit /\ probe.bwd.hit)

\* from outside the sphere, the direction of a shadow query reports no hit and
\* the opposite direction reports one
C2_Witness ==
    /\ probe.pc = "done" /\ ProbeC > 0
    /\ \E l \in BulbIds : probe.direction = normalized(VSub(probe.origin, Bulbs[l].center))
    /\ ~probe.fwd.hit /\ probe.bwd.hit

ProbeAtCentre ==
    /\ probe.pc = "done"
    /\ probe.origin = Spheres[probe.sphere].center
    /\ probe.direction # Zero3

(* C4 as stated: for a ray from the centre of the sphere, in any non-zero   *)
(* direction, a hit is reported at distance radius from the origin, with a  *)
(* unit normal equal to the normalized direction.                           *)
C4_CentreHitAtRadius ==
    ProbeAtCentre =>
        /\ probe.fwd.hit
        /\ Length(VSub(probe.fwd.intersection, probe.origin)) = Spheres[probe.sphere].radius
        /\ Length(probe.fwd.normal) = SCALE
        /\ probe.fwd.normal = normalized(probe.direction)

(* C4 as amended: for a ray from the centre of the sphere, in any non-zero  *)
(* direction, a hit is reported at the origin itself (distance 0), with the *)
(* null vector as normal and the direction unchanged as reflection.         *)
C4_CentreHitAtOrigin ==
    ProbeAtCentre =>
        /\ probe.fwd.hit
        /\ probe.fwd.intersection = probe.origin
        /\ probe.fwd.normal = Zero3
        /\ probe.fwd.reflection = probe.direction

\* a ray from a centre, in a direction that is not of unit length
C4_Witness ==
    /\ ProbeAtCentre /\ probe.fwd.hit
    /\ Length(probe.direction) # SCALE

---------------------------------------------------------------------------
(* Shadows as the claims state them: the light l is occluded at the hit     *)
(* point of f when another surface of f's list is met by the ray from the   *)
(* hit point toward the centre of the light.                                *)
TowardLight(f, l) == normalized(VSub(Bulbs[l].center, f.intersectionOrigin))
Occluded(f, l) ==
    \E i \in DOMAIN f.otherShapes :
        intersects(f.otherShapes[i], f.intersectionOrigin, TowardLight(f, l)).hit
LightPower(f, l) == power(l, f.intersectionOrigin, f.normalDirection)

\* the lights of f the hit point is lit by, in the order of the list
Lit(f) == SelectSeq(f.lights, LAMBDA l : ~Occluded(f, l) /\ LightPower(f, l) > 0)

RECURSIVE MaskSum(_, _, _)
\* colorOnFullShade plus power * color over the lights q[1..k]
MaskSum(f, q, k) ==
    IF k = 0 THEN colorOnFullShade
    ELSE VAdd(MaskSum(f, q, k - 1), VScale(Bulbs[q[k]].color, LightPower(f, q[k])))

MatteReturn(r) ==
    /\ r.frame.pc = "lights"
    /\ Spheres[Selected(r.frame)].mirror = 0

(* C3: when the nearest hit is on a non-mirror surface and another surface  *)
(* lies on the ray from the hit point toward the centre of a light whose    *)
(* power there is positive, that light adds nothing to the colour mask; if  *)
(* it is the only light, cast returns the surface colour times              *)
(* colorOnFullShade.                                                        *)
C3_OcclusionBlocks ==
    \A i \in DOMAIN returned :
        LET r == returned[i]
            f == r.frame
        IN  MatteReturn(r) =>
               /\ \A l \in Range(f.lights) :
                     (LightPower(f, l) > 0 /\ Occluded(f, l)) => l \notin Range(f.added)
               /\ (Len(f.lights) = 1 /\ LightPower(f, f.lights[1]) > 0
                        /\ Occluded(f, f.lights[1]))
                     => r.color = VMul(Spheres[Selected(f)].color, colorOnFullShade)

(* C8: a cast whose nearest hit is on a surface of mirror fraction 0        *)
(* returns the surface colour times the colour mask, the mask being         *)
(* colorOnFullShade plus power * light colour summed over exactly the       *)
(* lights that no other surface occludes and whose power at the hit point   *)
(* is > 0.                                                                  *)
C8_ColourComposition ==
    \A i \in DOMAIN returned :
        LET r == returned[i]
            f == r.frame
        IN  MatteReturn(r) =>
               /\ f.added = Lit(f)
               /\ r.color = VMul(Spheres[Selected(f)].color,
                                 MaskSum(f, Lit(f), Len(Lit(f))))

=============================================================================
